---- MODULE Spec2Model ----
(***************************************************************************)
(* A model of anywidget/experimental.py: the widget and dataclass          *)
(* decorators and the command dispatcher that                              *)
(* _register_anywidget_commands installs on a widget.                      *)
(*                                                                         *)
(* Spec      : one widget, its registration and the messages the host      *)
(*             delivers to it.                                             *)
(* SpecAttrs : the same, with the widget's attributes changing after the   *)
(*             registration.                                               *)
(* SpecDeco  : the decorators widget and dataclass applied to classes.     *)
(***************************************************************************)
EXTENDS Integers, Sequences, FiniteSets, TLC

VARIABLES
    attrs,          \* the widget's attributes: name -> attribute (or absent)
    pc,             \* "new" before _register_anywidget_commands ran, "registered" after
    cmds,           \* the dict captured by the closure handle_anywidget_command
    on_msg_calls,   \* how many times widget.on_msg was called
    delivered,      \* how many messages the host delivered so far
    last,           \* the message delivered last, with its buffers
    calls,          \* the command invocations, in order
    sent,           \* the calls of widget.send, in order
    raised,         \* the errors raised to the host, in order
    heap,           \* the class objects: class -> its attributes and what was applied to it
    deco,           \* the decorator (closure) returned last by widget or dataclass
    ret,            \* the last call of the decorator API: its arguments and its result
    applied         \* how many times a decorator body ran on a class

dvars == <<attrs, pc, cmds, on_msg_calls, delivered, last, calls, sent, raised>>

kvars == <<heap, deco, ret, applied>>

vars == <<dvars, kvars>>

(***************************************************************************)
(* Bounds                                                                  *)
(***************************************************************************)
MaxMsgs == 2
MaxMsgsAttrs == 1
MaxApplied == 1

(***************************************************************************)
(* The widget's attributes                                                 *)
(***************************************************************************)
Names == {"a", "b"}

Absent == [kind |-> "absent", tagged |-> FALSE, fn |-> "none"]

\* A plain value, a method (a callable) or an attribute whose getattr raises
\* AssertionError (ipywidgets' _staticproperty); methods are bound to a function.
AttrValues(fns) ==
    [kind : {"data"}, tagged : BOOLEAN, fn : {"none"}]
        \cup [kind : {"method"}, tagged : BOOLEAN, fn : fns]
        \cup [kind : {"raises"}, tagged : {FALSE}, fn : {"none"}]

\* dir(widget)
Dir(w) == {n \in Names : w[n].kind # "absent"}

\* callable(attr)
Callable(a) == a.kind = "method"

\* getattr(attr, _ANYWIDGET_COMMAND, False)
Tagged(a) == a.tagged

\* command(cmd): sets the tag on the function and returns the same function
command(a) == [a EXCEPT !.tagged = TRUE]

\* _collect_commands collecting every callable, tagged or not
CollectCallables(w) ==
    LET keep == {n \in Dir(w) : w[n].kind # "raises" /\ Callable(w[n])}
    IN  [n \in keep |-> w[n].fn]

\* _collect_commands(widget): getattr raising AssertionError is suppressed
CollectCommands(w) ==
    LET keep == {n \in Dir(w) : w[n].kind # "raises" /\ Callable(w[n]) /\ Tagged(w[n])}
    IN  [n \in keep |-> w[n].fn]

(***************************************************************************)
(* Messages                                                                *)
(***************************************************************************)
Keys == {"kind", "name", "msg", "id"}

ValuesOf(k) ==
    CASE k = "kind" -> {"anywidget-command", "other"}
      [] k = "name" -> Names
      [] k = "msg"  -> {"x"}
      [] k = "id"   -> {"i1", "i2"}

AllValues == UNION {ValuesOf(k) : k \in Keys}

DictsOver(keysets) ==
    UNION {{d \in [K -> AllValues] : \A k \in K : d[k] \in ValuesOf(k)} : K \in keysets}

\* Every dict of kind "anywidget-command" over the keys, and the dicts of another
\* kind or of none with all of the other keys or with none of them.
Dicts ==
    {d \in DictsOver(SUBSET Keys) : "kind" \in DOMAIN d /\ d["kind"] = "anywidget-command"}
        \cup {d \in DictsOver({{}, {"kind"}, Keys \ {"kind"}, Keys}) :
                 "kind" \in DOMAIN d => d["kind"] = "other"}

NoDict == [k \in {} |-> "x"]

Messages ==
    [type : {"dict"}, d : Dicts] \cup [type : {"str", "list"}, d : {NoDict}]

Buffers == {<<>>, <<1>>}

NoMessage == [msg |-> [type |-> "none", d |-> NoDict], buffers |-> <<>>]

\* isinstance(msg, dict)
IsDict(m) == m.type = "dict"

\* msg.get(k)
Get(m, k) == IF k \in DOMAIN m.d THEN m.d[k] ELSE "None"

\* A bound command: (msg, buffers) -> (response, buffers)
CallCommand(fn, content, buffers) ==
    [response |-> <<fn, content>>,
     buffers  |-> IF fn = "f" THEN Append(buffers, 2) ELSE <<3>>]

\* The lookup failure of d[key] on a dict without that key
KeyError(key) == [type |-> "KeyError", key |-> key]

NoError == [type |-> "none", key |-> "none"]

(***************************************************************************)
(* handle_anywidget_command(self, msg, buffers): what one call does.       *)
(* outcome: "ignored" (the early return), "error" (raised to the host),    *)
(* "sent"; calls: the commands it invoked; sends: its calls of self.send.  *)
(***************************************************************************)
\* return
Returns == [outcome |-> "ignored", calls |-> <<>>, sends |-> <<>>, err |-> NoError]

\* an exception leaves the handler after the invocations cs
Raises(cs, err) == [outcome |-> "error", calls |-> cs, sends |-> <<>>, err |-> err]

\* cmd(msg["msg"], buffers)
Invocation(c, m, buffers) ==
    [name |-> m.d["name"], fn |-> c[m.d["name"]], msg |-> m.d["msg"], buffers |-> buffers]

\* self.send({"id": ..., "kind": ..., "response": response}, buffers)
Send(id, response, buffers) ==
    [payload |-> [id |-> id, kind |-> "anywidget-command-response", response |-> response],
     buffers |-> buffers]

\* The handler sending the incoming buffers back
HandleEchoBuffers(c, m, buffers) ==
    IF ~IsDict(m) \/ Get(m, "kind") # "anywidget-command" THEN Returns
    ELSE IF "name" \notin DOMAIN m.d THEN Raises(<<>>, KeyError("name"))
    ELSE IF m.d["name"] \notin DOMAIN c THEN Raises(<<>>, KeyError(m.d["name"]))
    ELSE IF "msg" \notin DOMAIN m.d THEN Raises(<<>>, KeyError("msg"))
    ELSE LET call == Invocation(c, m, buffers)
             r    == CallCommand(call.fn, call.msg, call.buffers)
         IN  IF "id" \notin DOMAIN m.d THEN Raises(<<call>>, KeyError("id"))
             ELSE [outcome |-> "sent", calls |-> <<call>>,
                   sends |-> <<Send(m.d["id"], r.response, buffers)>>, err |-> NoError]

\* The handler sending its response twice
HandleRetry(c, m, buffers) ==
    IF ~IsDict(m) \/ Get(m, "kind") # "anywidget-command" THEN Returns
    ELSE IF "name" \notin DOMAIN m.d THEN Raises(<<>>, KeyError("name"))
    ELSE IF m.d["name"] \notin DOMAIN c THEN Raises(<<>>, KeyError(m.d["name"]))
    ELSE IF "msg" \notin DOMAIN m.d THEN Raises(<<>>, KeyError("msg"))
    ELSE LET call == Invocation(c, m, buffers)
             r    == CallCommand(call.fn, call.msg, call.buffers)
         IN  IF "id" \notin DOMAIN m.d THEN Raises(<<call>>, KeyError("id"))
             ELSE [outcome |-> "sent", calls |-> <<call>>,
                   sends |-> <<Send(m.d["id"], r.response, r.buffers),
                               Send(m.d["id"], r.response, r.buffers)>>,
                   err |-> NoError]

\* The handler without the test of "kind"
HandleAnyDict(c, m, buffers) ==
    IF ~IsDict(m) THEN Returns
    ELSE IF "name" \notin DOMAIN m.d THEN Raises(<<>>, KeyError("name"))
    ELSE IF m.d["name"] \notin DOMAIN c THEN Raises(<<>>, KeyError(m.d["name"]))
    ELSE IF "msg" \notin DOMAIN m.d THEN Raises(<<>>, KeyError("msg"))
    ELSE LET call == Invocation(c, m, buffers)
             r    == CallCommand(call.fn, call.msg, call.buffers)
         IN  IF "id" \notin DOMAIN m.d THEN Raises(<<call>>, KeyError("id"))
             ELSE [outcome |-> "sent", calls |-> <<call>>,
                   sends |-> <<Send(m.d["id"], r.response, r.buffers)>>, err |-> NoError]

\* The handler looking the command up with cmds.get and returning when there is none
HandleSkipUnknown(c, m, buffers) ==
    IF ~IsDict(m) \/ Get(m, "kind") # "anywidget-command" THEN Returns
    ELSE IF "name" \notin DOMAIN m.d THEN Raises(<<>>, KeyError("name"))
    ELSE IF m.d["name"] \notin DOMAIN c THEN Returns
    ELSE IF "msg" \notin DOMAIN m.d THEN Raises(<<>>, KeyError("msg"))
    ELSE LET call == Invocation(c, m, buffers)
             r    == CallCommand(call.fn, call.msg, call.buffers)
         IN  IF "id" \notin DOMAIN m.d THEN Raises(<<call>>, KeyError("id"))
             ELSE [outcome |-> "sent", calls |-> <<call>>,
                   sends |-> <<Send(m.d["id"], r.response, r.buffers)>>, err |-> NoError]

Handle(c, m, buffers) ==
    IF ~IsDict(m) \/ Get(m, "kind") # "anywidget-command" THEN Returns
    ELSE IF "name" \notin DOMAIN m.d THEN Raises(<<>>, KeyError("name"))
    ELSE IF m.d["name"] \notin DOMAIN c THEN Raises(<<>>, KeyError(m.d["name"]))
    ELSE IF "msg" \notin DOMAIN m.d THEN Raises(<<>>, KeyError("msg"))
    ELSE LET call == Invocation(c, m, buffers)
             r    == CallCommand(call.fn, call.msg, call.buffers)
         IN  IF "id" \notin DOMAIN m.d THEN Raises(<<call>>, KeyError("id"))
             ELSE [outcome |-> "sent", calls |-> <<call>>,
                   sends |-> <<Send(m.d["id"], r.response, r.buffers)>>, err |-> NoError]

(***************************************************************************)
(* Classes and keyword arguments                                           *)
(***************************************************************************)
ClassIds == {"A", "B"}

ClassAttrs == {"_repr_mimebundle_", "value"}

EmptyKwargs == [k \in {} |-> "x"]

\* d[k] = v
Put(d, k, v) == [x \in DOMAIN d \cup {k} |-> IF x = k THEN v ELSE d[x]]

Esms == {"e1.js", "e2.js"}

\* css: None, the empty string or a stylesheet
Csss == {"None", "", "c.css"}

\* the keyword arguments widget is given besides esm and css
WidgetKwargs ==
    {EmptyKwargs, Put(EmptyKwargs, "no_view", "True"),
     Put(EmptyKwargs, "_css", "k.css"), Put(EmptyKwargs, "_esm", "k.js")}

\* the keyword arguments dataclass is given besides esm and css
DataclassKwargs == {EmptyKwargs, Put(EmptyKwargs, "frozen", "True")}

\* A class attribute that was never set, and one set to something else
Unset == [type |-> "unset", kwargs |-> EmptyKwargs]

Other == [type |-> "other", kwargs |-> EmptyKwargs]

\* MimeBundleDescriptor called with the keyword arguments kwargs
MimeBundleDescriptor(kwargs) == [type |-> "MimeBundleDescriptor", kwargs |-> kwargs]

\* A closure: its function, the arguments of the call that made it (esm, css, given)
\* and the dict kwargs it captured
NoDeco ==
    [fn |-> "none", esm |-> "n/a", css |-> "n/a", given |-> EmptyKwargs,
     kwargs |-> EmptyKwargs]

NoCall ==
    [tick |-> 0, op |-> "none", esm |-> "n/a", css |-> "n/a", kwargs |-> EmptyKwargs,
     arg |-> "None", result |-> "None"]

\* What a transformation leaves on the class it ran on
Ran(h, cls, t, kwargs) ==
    [h EXCEPT ![cls].log = Append(@, [t |-> t, kwargs |-> kwargs])]

(***************************************************************************)
(* widget(esm, css, kwargs): the closure _decorator it returns             *)
(***************************************************************************)
\* widget testing css for truth instead of for None
widgetTruthyCss(esm, css, kwargs) ==
    LET k1 == Put(kwargs, "_esm", esm)
        k2 == IF css \notin {"None", ""} THEN Put(k1, "_css", css) ELSE k1
    IN  [fn |-> "widget._decorator", esm |-> esm, css |-> css, given |-> kwargs,
         kwargs |-> k2]

widget(esm, css, kwargs) ==
    LET k1 == Put(kwargs, "_esm", esm)
        k2 == IF css # "None" THEN Put(k1, "_css", css) ELSE k1
    IN  [fn |-> "widget._decorator", esm |-> esm, css |-> css, given |-> kwargs,
         kwargs |-> k2]

\* widget's _decorator(cls), d being the closure
WidgetDecorator(h, d, cls) ==
    LET h1 == [h EXCEPT ![cls].attrs["_repr_mimebundle_"] = MimeBundleDescriptor(d.kwargs)]
    IN  [heap |-> Ran(h1, cls, "setattr", d.kwargs), result |-> cls]

(***************************************************************************)
(* dataclass(cls, esm, css, dataclass_kwargs)                              *)
(***************************************************************************)
\* dataclasses.dataclass(cls, dataclass_kwargs)
dataclasses_dataclass(h, cls, kwargs) ==
    [heap |-> Ran(h, cls, "dataclasses.dataclass", kwargs), result |-> cls]

\* psygnal.evented(cls)
psygnal_evented(h, cls) ==
    [heap |-> Ran(h, cls, "psygnal.evented", EmptyKwargs), result |-> cls]

\* _decorator handing the dataclass keyword arguments on to widget
DataclassDecoratorForwards(h, d, cls) ==
    LET s1 == dataclasses_dataclass(h, cls, d.kwargs)
        s2 == psygnal_evented(s1.heap, s1.result)
    IN  WidgetDecorator(s2.heap, widget(d.esm, d.css, d.kwargs), s2.result)

\* dataclass's _decorator(cls), d being the closure
DataclassDecorator(h, d, cls) ==
    LET s1 == dataclasses_dataclass(h, cls, d.kwargs)
        s2 == psygnal_evented(s1.heap, s1.result)
    IN  WidgetDecorator(s2.heap, widget(d.esm, d.css, EmptyKwargs), s2.result)

\* dataclass called with a class registering it as a widget only
dataclassDirectWidgetOnly(h, cls, esm, css, kwargs) ==
    LET d == [fn |-> "dataclass._decorator", esm |-> esm, css |-> css, given |-> kwargs,
              kwargs |-> kwargs]
    IN  IF cls # "None"
        THEN LET s == WidgetDecorator(h, widget(esm, css, EmptyKwargs), cls)
             IN  [heap |-> s.heap, result |-> s.result, deco |-> NoDeco]
        ELSE [heap |-> h, result |-> "<decorator>", deco |-> d]

\* return _decorator(cls) if cls is not None else _decorator
dataclass(h, cls, esm, css, kwargs) ==
    LET d == [fn |-> "dataclass._decorator", esm |-> esm, css |-> css, given |-> kwargs,
              kwargs |-> kwargs]
    IN  IF cls # "None"
        THEN LET s == DataclassDecorator(h, d, cls)
             IN  [heap |-> s.heap, result |-> s.result, deco |-> NoDeco]
        ELSE [heap |-> h, result |-> "<decorator>", deco |-> d]

(***************************************************************************)
(* Initial state                                                           *)
(***************************************************************************)
\* The widget before _register_anywidget_commands ran, its attributes drawn from ws
WidgetInit(ws) ==
    /\ attrs \in ws
    /\ pc = "new"
    /\ cmds = CollectCommands([n \in Names |-> Absent])
    /\ on_msg_calls = 0
    /\ delivered = 0
    /\ last = NoMessage
    /\ calls = <<>>
    /\ sent = <<>>
    /\ raised = <<>>

\* The classes before any decorator ran: B defines a _repr_mimebundle_ of its own
ClassInit ==
    /\ heap = [c \in ClassIds |->
                 [log   |-> <<>>,
                  attrs |-> [a \in ClassAttrs |->
                               IF a = "_repr_mimebundle_" /\ c = "A" THEN Unset ELSE Other]]]
    /\ deco = NoDeco
    /\ ret = NoCall
    /\ applied = 0

Init == WidgetInit([Names -> AttrValues({"f"}) \cup {Absent}]) /\ ClassInit

InitDeco == WidgetInit({[n \in Names |-> Absent]}) /\ ClassInit

(***************************************************************************)
(* _register_anywidget_commands(widget)                                    *)
(***************************************************************************)
\* The registration without the test of len(cmds)
RegisterAlways ==
    /\ pc = "new"
    /\ pc' = "registered"
    /\ cmds' = CollectCommands(attrs)
    /\ on_msg_calls' = on_msg_calls + 1
    /\ UNCHANGED <<attrs, delivered, last, calls, sent, raised>>
    /\ UNCHANGED kvars

Register ==
    /\ pc = "new"
    /\ pc' = "registered"
    /\ LET collected == CollectCommands(attrs)
       IN  IF DOMAIN collected = {}
           THEN UNCHANGED <<cmds, on_msg_calls>>
           ELSE /\ cmds' = collected
                /\ on_msg_calls' = on_msg_calls + 1
    /\ UNCHANGED <<attrs, delivered, last, calls, sent, raised>>
    /\ UNCHANGED kvars

(***************************************************************************)
(* Changes of the widget after registration                                *)
(***************************************************************************)
SetAttr ==
    /\ pc = "registered"
    /\ \E n \in Names, v \in AttrValues({"g"}) :
          attrs' = [attrs EXCEPT ![n] = v]
    /\ UNCHANGED <<pc, cmds, on_msg_calls, delivered, last, calls, sent, raised>>
    /\ UNCHANGED kvars

DelAttr ==
    /\ pc = "registered"
    /\ \E n \in Dir(attrs) : attrs' = [attrs EXCEPT ![n] = Absent]
    /\ UNCHANGED <<pc, cmds, on_msg_calls, delivered, last, calls, sent, raised>>
    /\ UNCHANGED kvars

TagAttr ==
    /\ pc = "registered"
    /\ \E n \in Dir(attrs) :
          /\ attrs[n].kind = "method"
          /\ ~attrs[n].tagged
          /\ attrs' = [attrs EXCEPT ![n] = command(attrs[n])]
    /\ UNCHANGED <<pc, cmds, on_msg_calls, delivered, last, calls, sent, raised>>
    /\ UNCHANGED kvars

(***************************************************************************)
(* The host delivers one message to the callbacks registered with on_msg   *)
(***************************************************************************)
Deliver(max) ==
    /\ delivered < max
    /\ \E m \in Messages, b \in Buffers :
          LET h == Handle(cmds, m, b)
              stamp(s) == [i \in 1..Len(s) |-> [at |-> delivered + 1, what |-> s[i]]]
          IN  /\ last' = [msg |-> m, buffers |-> b]
              /\ IF on_msg_calls = 0
                 THEN UNCHANGED <<calls, sent, raised>>
                 ELSE /\ calls' = calls \o stamp(h.calls)
                      /\ sent' = sent \o stamp(h.sends)
                      /\ raised' = IF h.outcome = "error"
                                   THEN Append(raised, [at |-> delivered + 1, what |-> h.err])
                                   ELSE raised
    /\ delivered' = delivered + 1
    /\ UNCHANGED <<attrs, pc, cmds, on_msg_calls>>
    /\ UNCHANGED kvars

Next == Register \/ Deliver(MaxMsgs)

Spec == Init /\ [][Next]_vars

NextAttrs == Register \/ SetAttr \/ DelAttr \/ TagAttr \/ Deliver(MaxMsgsAttrs)

SpecAttrs == Init /\ [][NextAttrs]_vars

(***************************************************************************)
(* Properties of the dispatcher                                            *)
(***************************************************************************)
\* This step is the delivery of one message
Delivery == delivered' = delivered + 1

\* The host has a callback of this widget: on_msg was called
HandlerRegistered == on_msg_calls = 1

\* A dict of kind "anywidget-command" with "msg" and "id" and a registered "name"
WellFormed(m, c) ==
    /\ m.type = "dict"
    /\ {"kind", "name", "msg", "id"} \subseteq DOMAIN m.d
    /\ m.d["kind"] = "anywidget-command"
    /\ m.d["name"] \in DOMAIN c

\* Not a dict, or a dict whose "kind" is missing or is not "anywidget-command"
Ignorable(m) ==
    \/ m.type \in {"str", "list"}
    \/ /\ m.type = "dict"
       /\ ("kind" \notin DOMAIN m.d \/ m.d["kind"] # "anywidget-command")

\* A command message whose "name" is no registered command
UnknownName(m, c) ==
    /\ m.type = "dict"
    /\ {"kind", "name"} \subseteq DOMAIN m.d
    /\ m.d["kind"] = "anywidget-command"
    /\ m.d["name"] \notin DOMAIN c

\* The names of the attributes of w that are callable and carry the tag
CommandNames(w) == {n \in Names : w[n].kind = "method" /\ w[n].tagged}

\* The entries of the history s that the message delivered as number k left
At(s, k) == {i \in 1..Len(s) : s[i].at = k}

\* The answer to the well-formed message m delivered with the buffers b
Answered(m, b) ==
    LET name == m.d["name"]
        out  == CallCommand(cmds[name], m.d["msg"], b)
    IN  /\ calls' = Append(calls, [at |-> delivered', what |->
                        [name |-> name, fn |-> cmds[name], msg |-> m.d["msg"], buffers |-> b]])
        /\ sent' = Append(sent, [at |-> delivered', what |->
                        [payload |-> [id |-> m.d["id"],
                                      kind |-> "anywidget-command-response",
                                      response |-> out.response],
                         buffers |-> out.buffers]])
        /\ raised' = raised

\* C1: once the handler is registered, every well-formed command message makes the
\* handler invoke the command registered under its name with (msg["msg"], incoming
\* buffers) and then call send exactly once, with the request's id, the kind
\* "anywidget-command-response", the command's response and the command's buffers.
C1_DispatchAndReply ==
    [][(Delivery /\ HandlerRegistered /\ WellFormed(last'.msg, cmds))
          => Answered(last'.msg, last'.buffers)]_vars

\* A well-formed message was answered, with buffers that are not the incoming ones
C1_Witness ==
    /\ HandlerRegistered
    /\ delivered >= 1
    /\ WellFormed(last.msg, cmds)
    /\ sent # <<>>
    /\ sent[Len(sent)].at = delivered
    /\ sent[Len(sent)].what.buffers # last.buffers
    /\ calls[Len(calls)].what.buffers = last.buffers

\* C3: no retry and no reordering: each delivered message leaves at most one
\* invocation and at most one send, a send only after an invocation for the same
\* message and never together with an error, everything of a message before anything
\* of the next, so the responses are in the order of the deliveries.
C3_NoRetryNoReorder ==
    /\ \A k \in 1..delivered :
          /\ Cardinality(At(calls, k)) <= 1
          /\ Cardinality(At(sent, k)) <= 1
          /\ Cardinality(At(raised, k)) <= 1
          /\ At(sent, k) # {} => (At(calls, k) # {} /\ At(raised, k) = {})
    /\ \A i \in 1..Len(sent) : sent[i].at \in 1..delivered
    /\ \A i \in 1..Len(calls) : calls[i].at \in 1..delivered
    /\ \A i, j \in 1..Len(sent) : i < j => sent[i].at < sent[j].at
    /\ \A i, j \in 1..Len(calls) : i < j => calls[i].at < calls[j].at
    /\ \A i \in At(sent, delivered) : sent[i].what.payload.id = last.msg.d["id"]

\* Two command messages were answered one after the other, with different ids
C3_Witness ==
    /\ Len(sent) = 2
    /\ sent[1].at = 1
    /\ sent[2].at = 2
    /\ sent[1].what.payload.id # sent[2].what.payload.id
    /\ Len(calls) = 2

\* C7: _register_anywidget_commands calls on_msg exactly once if the widget has a
\* command, and with no command it calls on_msg not at all and changes nothing.
C7_RegisterOnceOrNever ==
    [][(pc = "new" /\ pc' = "registered")
          => /\ attrs' = attrs
             /\ IF CommandNames(attrs) # {}
                THEN on_msg_calls' = on_msg_calls + 1
                ELSE UNCHANGED <<on_msg_calls, cmds, attrs, calls, sent, raised>>]_vars

\* A widget with attributes and no command was registered: no handler, and a
\* command message delivered to it had no effect
C7_Witness ==
    /\ pc = "registered"
    /\ on_msg_calls = 0
    /\ Dir(attrs) # {}
    /\ delivered >= 1
    /\ last.msg.type = "dict"
    /\ calls = <<>>
    /\ raised = <<>>

\* C8: a message that is not a dict, or a dict whose "kind" is missing or is not
\* "anywidget-command", is ignored: no invocation, no send, no error, same command map.
C8_IgnoresOtherMessages ==
    [][(Delivery /\ Ignorable(last'.msg)) => UNCHANGED <<calls, sent, raised, cmds>>]_vars

\* The registered handler answered the first message and ignored the second
C8_Witness ==
    /\ HandlerRegistered
    /\ delivered = 2
    /\ At(sent, 1) # {}
    /\ Ignorable(last.msg)
    /\ last.msg.type = "dict"
    /\ "kind" \in DOMAIN last.msg.d
    /\ Len(sent) = 1
    /\ Len(calls) = 1
    /\ raised = <<>>

\* C9: a command message whose name is not registered ends in a lookup error with no
\* invocation and no send and leaves the command map alone; a well-formed command
\* message delivered after such an error is dispatched and answered.
C9_UnknownNameRaises ==
    [][/\ (Delivery /\ HandlerRegistered /\ UnknownName(last'.msg, cmds))
            => /\ raised' = Append(raised, [at |-> delivered',
                                            what |-> KeyError(last'.msg.d["name"])])
               /\ UNCHANGED <<calls, sent, cmds>>
       /\ (Delivery /\ HandlerRegistered /\ raised # <<>> /\ WellFormed(last'.msg, cmds))
            => Answered(last'.msg, last'.buffers)]_vars

\* The first message named an unknown command and raised, the second was answered
C9_Witness ==
    /\ HandlerRegistered
    /\ delivered = 2
    /\ Len(raised) = 1
    /\ raised[1].at = 1
    /\ raised[1].what.key \in Names \ DOMAIN cmds
    /\ Len(sent) = 1
    /\ sent[1].at = 2
    /\ WellFormed(last.msg, cmds)

\* C2: the names the dispatcher can invoke are exactly the names of the attributes
\* that were callable and tagged when _register_anywidget_commands ran; the set never
\* changes afterwards, whatever is tagged, added or removed later; a command message
\* leads to an invocation exactly if it names one of them (and has "msg").
C2_DispatchableSetFixed ==
    [][/\ (pc = "new" /\ pc' = "registered") => DOMAIN cmds' = CommandNames(attrs)
       /\ pc = "registered" => cmds' = cmds
       /\ (Delivery /\ pc = "registered")
            => LET m == last'.msg
                   named == /\ m.type = "dict"
                            /\ {"kind", "name", "msg"} \subseteq DOMAIN m.d
                            /\ m.d["kind"] = "anywidget-command"
               IN  IF named /\ m.d["name"] \in DOMAIN cmds
                   THEN /\ Len(calls') = Len(calls) + 1
                        /\ calls'[Len(calls')].what.name = m.d["name"]
                        /\ calls'[Len(calls')].what.fn = cmds[m.d["name"]]
                   ELSE calls' = calls]_vars

\* After the registration one command was removed and is still invoked with the
\* function it had, and an attribute tagged only later is not dispatchable
C2_Witness ==
    /\ pc = "registered"
    /\ \E n \in DOMAIN cmds :
          /\ attrs[n] = Absent
          /\ Len(calls) = 1
          /\ calls[1].what.name = n
          /\ calls[1].what.fn = "f"
    /\ \E n \in Names \ DOMAIN cmds : attrs[n].kind = "method" /\ attrs[n].tagged

(***************************************************************************)
(* The calls of the decorator API                                          *)
(***************************************************************************)
Tick == 1 - ret.tick

\* widget(esm=..., css=..., ...)
CallWidget ==
    /\ \E esm \in Esms, css \in Csss, kwargs \in WidgetKwargs :
          /\ deco' = widget(esm, css, kwargs)
          /\ ret' = [tick |-> Tick, op |-> "widget", esm |-> esm, css |-> css,
                     kwargs |-> kwargs, arg |-> "None", result |-> "<decorator>"]
    /\ UNCHANGED <<heap, applied>>
    /\ UNCHANGED dvars

\* widget(...)(cls)
ApplyWidgetDecorator ==
    /\ deco.fn = "widget._decorator"
    /\ applied < MaxApplied
    /\ \E cls \in ClassIds :
          LET s == WidgetDecorator(heap, deco, cls)
          IN  /\ heap' = s.heap
              /\ ret' = [tick |-> Tick, op |-> "widget._decorator", esm |-> deco.esm,
                         css |-> deco.css, kwargs |-> deco.given, arg |-> cls,
                         result |-> s.result]
    /\ applied' = applied + 1
    /\ UNCHANGED deco
    /\ UNCHANGED dvars

\* dataclass(esm=..., css=..., ...) and dataclass(cls, esm=..., css=..., ...)
CallDataclass ==
    /\ \E cls \in ClassIds \cup {"None"}, esm \in Esms, css \in Csss, kwargs \in DataclassKwargs :
          LET s == dataclass(heap, cls, esm, css, kwargs)
          IN  /\ cls # "None" => applied < MaxApplied
              /\ heap' = s.heap
              /\ deco' = IF cls = "None" THEN s.deco ELSE deco
              /\ applied' = IF cls = "None" THEN applied ELSE applied + 1
              /\ ret' = [tick |-> Tick, op |-> "dataclass", esm |-> esm, css |-> css,
                         kwargs |-> kwargs, arg |-> cls, result |-> s.result]
    /\ UNCHANGED dvars

\* dataclass(...)(cls)
ApplyDataclassDecorator ==
    /\ deco.fn = "dataclass._decorator"
    /\ applied < MaxApplied
    /\ \E cls \in ClassIds :
          LET s == DataclassDecorator(heap, deco, cls)
          IN  /\ heap' = s.heap
              /\ ret' = [tick |-> Tick, op |-> "dataclass._decorator", esm |-> deco.esm,
                         css |-> deco.css, kwargs |-> deco.given, arg |-> cls,
                         result |-> s.result]
    /\ applied' = applied + 1
    /\ UNCHANGED deco
    /\ UNCHANGED dvars

NextDeco == CallWidget \/ ApplyWidgetDecorator \/ CallDataclass \/ ApplyDataclassDecorator

SpecDeco == InitDeco /\ [][NextDeco]_vars

(***************************************************************************)
(* Properties of the decorators                                            *)
(***************************************************************************)
\* This step is a call of the decorator API
Called == ret'.tick # ret.tick

\* This step applies the decorator that widget returned to the class ret'.arg
WidgetApplied == Called /\ ret'.op = "widget._decorator"

\* This step runs dataclass's _decorator on the class ret'.arg, in either call form
DataclassApplied ==
    /\ Called
    /\ \/ ret'.op = "dataclass" /\ ret'.arg # "None"
       \/ ret'.op = "dataclass._decorator"

\* The descriptor now stored on the class ret'.arg
Stored == heap'[ret'.arg].attrs["_repr_mimebundle_"]

\* Of all the attributes of all the classes only _repr_mimebundle_ of cls changed
OnlyMimebundleSet(cls) ==
    \A c \in ClassIds, a \in ClassAttrs :
        (c # cls \/ a # "_repr_mimebundle_") => heap'[c].attrs[a] = heap[c].attrs[a]

\* The decorator returned the class it was given and set a MimeBundleDescriptor on it,
\* built from the keyword arguments given and _esm = esm
SetsDescriptor ==
    /\ ret'.result = ret'.arg
    /\ OnlyMimebundleSet(ret'.arg)
    /\ \A c \in ClassIds \ {ret'.arg} : heap'[c] = heap[c]
    /\ Stored.type = "MimeBundleDescriptor"
    /\ DOMAIN ret'.kwargs \cup {"_esm"} \subseteq DOMAIN Stored.kwargs
    /\ Stored.kwargs["_esm"] = ret'.esm
    /\ \A k \in DOMAIN ret'.kwargs \ {"_esm", "_css"} : Stored.kwargs[k] = ret'.kwargs[k]
    /\ ret'.css # "None" => ("_css" \in DOMAIN Stored.kwargs /\ Stored.kwargs["_css"] = ret'.css)

\* C4 as stated: widget(esm=e, css=c, ...)(cls) returns cls, sets only
\* _repr_mimebundle_, to a MimeBundleDescriptor built from kwargs plus _esm = e plus
\* _css = c if c is not None, and when css is None no _css key is passed.
C4_Original ==
    [][WidgetApplied
          => /\ SetsDescriptor
             /\ ret'.css = "None" => "_css" \notin DOMAIN Stored.kwargs]_vars

\* C4 amended: as stated, except that when css is None widget adds no _css key: the
\* descriptor then receives a _css key exactly if kwargs holds one, with kwargs' value.
C4_WidgetSetsDescriptor ==
    [][WidgetApplied
          => /\ SetsDescriptor
             /\ DOMAIN Stored.kwargs =
                   DOMAIN ret'.kwargs \cup {"_esm"}
                       \cup (IF ret'.css # "None" THEN {"_css"} ELSE {})
             /\ (ret'.css = "None" /\ "_css" \in DOMAIN ret'.kwargs)
                   => Stored.kwargs["_css"] = ret'.kwargs["_css"]]_vars

\* widget(esm, css=None, _css=...) was applied to B, which had a _repr_mimebundle_ of
\* its own: the descriptor replaced it and holds the _css of kwargs
C4_Witness ==
    /\ ret.op = "widget._decorator"
    /\ ret.arg = "B"
    /\ ret.result = "B"
    /\ ret.css = "None"
    /\ "_css" \in DOMAIN ret.kwargs
    /\ heap["B"].attrs["_repr_mimebundle_"].type = "MimeBundleDescriptor"
    /\ "_css" \in DOMAIN heap["B"].attrs["_repr_mimebundle_"].kwargs
    /\ heap["B"].attrs["value"] = Other

\* C5: dataclass applies to the class exactly dataclasses.dataclass (with all of
\* dataclass_kwargs and nothing else), then psygnal.evented, then widget(esm, css); the
\* descriptor stored on the result receives only esm and css.
C5_ThreeTransformationsInOrder ==
    [][DataclassApplied
          => /\ ret'.result = ret'.arg
             /\ Len(heap'[ret'.arg].log) = Len(heap[ret'.arg].log) + 3
             /\ SubSeq(heap'[ret'.arg].log, 1, Len(heap[ret'.arg].log)) = heap[ret'.arg].log
             /\ LET n == Len(heap[ret'.arg].log)
                    l == heap'[ret'.arg].log
                IN  /\ l[n + 1] = [t |-> "dataclasses.dataclass", kwargs |-> ret'.kwargs]
                    /\ l[n + 2].t = "psygnal.evented"
                    /\ l[n + 3].t = "setattr"
             /\ OnlyMimebundleSet(ret'.arg)
             /\ \A c \in ClassIds \ {ret'.arg} : heap'[c] = heap[c]
             /\ Stored.type = "MimeBundleDescriptor"
             /\ DOMAIN Stored.kwargs = {"_esm"} \cup (IF ret'.css # "None" THEN {"_css"} ELSE {})
             /\ Stored.kwargs["_esm"] = ret'.esm
             /\ ret'.css # "None" => Stored.kwargs["_css"] = ret'.css]_vars

\* dataclass(esm, css, frozen=True) ran on a class: three transformations, and a
\* descriptor without the dataclass keyword argument
C5_Witness ==
    /\ ret.op \in {"dataclass", "dataclass._decorator"}
    /\ ret.arg \in ClassIds
    /\ "frozen" \in DOMAIN ret.kwargs
    /\ Len(heap[ret.arg].log) = 3
    /\ heap[ret.arg].log[1].t = "dataclasses.dataclass"
    /\ heap[ret.arg].attrs["_repr_mimebundle_"].type = "MimeBundleDescriptor"
    /\ "frozen" \notin DOMAIN heap[ret.arg].attrs["_repr_mimebundle_"].kwargs

\* C6: dataclass(cls, esm=.., css=.., ...) does to cls and returns what
\* dataclass(esm=.., css=.., ...)(cls) does and returns; with cls None a decorator is
\* returned and no class is touched until it is called with a class.
C6_CallFormsAgree ==
    [][/\ (Called /\ ret'.op = "dataclass" /\ ret'.arg = "None")
            => /\ heap' = heap
               /\ applied' = applied
               /\ ret'.result = "<decorator>"
               /\ deco'.fn = "dataclass._decorator"
       /\ (Called /\ ret'.op = "dataclass" /\ ret'.arg # "None")
            => LET made == dataclass(heap, "None", ret'.esm, ret'.css, ret'.kwargs).deco
                   two  == DataclassDecorator(heap, made, ret'.arg)
               IN  heap' = two.heap /\ ret'.result = two.result
       /\ (Called /\ ret'.op = "dataclass._decorator")
            => LET one == dataclass(heap, ret'.arg, ret'.esm, ret'.css, ret'.kwargs)
               IN  heap' = one.heap /\ ret'.result = one.result]_vars

\* The decorator that dataclass(esm, css, ...) returned was called with a class
C6_Witness ==
    /\ ret.op = "dataclass._decorator"
    /\ deco.fn = "dataclass._decorator"
    /\ ret.arg \in ClassIds
    /\ ret.result = ret.arg
    /\ Len(heap[ret.arg].log) = 3
    /\ applied = 1

====
